---- MODULE Spec2Model ----
(***************************************************************************)
(* The Timer / debounce / throttle helpers of examples/Image_slider.ipynb. *)
(*                                                                         *)
(* Everything runs on one asyncio event loop, so every callback (a call of *)
(* a wrapper, a step of Timer._job) is one atomic step.  The only callback *)
(* that is split is the throttler's call_it, because the wrapped function  *)
(* may call the wrapper again while it runs (show_snapshot assigns         *)
(* date_slider.value, whose observer calls show_snapshot).                 *)
(*                                                                         *)
(* Time is a discrete clock of ticks, and it moves whatever the loop is    *)
(* doing: while fn runs, while a new task waits for its first step and     *)
(* while a Timer whose sleep is over waits for the loop.  asyncio.sleep    *)
(* counts from the moment the task reaches it, which is after the callback *)
(* that constructed the Timer has returned to the loop, and it promises    *)
(* only that the task goes on no earlier than the delay.  At one instant   *)
(* the loop may run a due Timer and an incoming call in either order.      *)
(***************************************************************************)
EXTENDS Integers, Sequences, FiniteSets, TLC

VARIABLES
    now,                \* the reading of time(): seconds since the epoch, in ticks
    timers,             \* every Timer object constructed so far, by identity 1..Len
    timer,              \* debounce.decorator: the nonlocal `timer` of each wrapper (0 = None)
    wait,               \* the `wait` each decorator was built with
    time_of_last_call,  \* throttle.decorator
    scheduled,          \* throttle.decorator
    new_args,           \* throttle.decorator
    pc,                 \* "idle", or "fn" while the throttler's call_it is inside fn
    raised,             \* an invocation of the throttled fn has raised
    calls,              \* log: every call of a wrapper / construction of a bare Timer
    execs               \* log: every invocation of a callback target (fn), with
                        \* the number of calls logged before it and of cancel()
                        \* calls made on its Timer before it

vars == <<now, timers, timer, wait, time_of_last_call, scheduled, new_args,
          pc, raised, calls, execs>>

\* ---------------------------------------------------------------- bounds
MaxCalls == 3       \* calls of wrappers logged in one run
MaxTime == 7        \* ticks the clock advances in one run
MaxWait == 2        \* largest `wait` / timeout tried
ThrottleEnd == 5    \* ticks the clock advances in a run of the throttled wrapper
PairEnd == 3        \* ticks the clock advances in a run of two debounced wrappers
TimerEnd == 2       \* ticks the clock advances in a run of the bare Timer
MaxCancel == 2      \* cancel() calls the client of the bare Timer makes in one run
ScenarioEnd == 42   \* ticks the clock advances in the 0/10/300 ms scenario
MaxLate == 2        \* ticks a ready task waits for the loop, or fn runs, in that scenario

\* ------------------------------------------------------ program constants
\* `from time import time`: the clock is the Unix time, far larger than any wait.
Epoch == 1000
\* @debounce(0.2): 200 ms, in ticks of 50 ms.
MeanWait == 4
\* @throttle(0.1): 100 ms, in ticks of 10 ms.
SnapshotWait == 10

Debouncers == {"deb1", "deb2"}
Throttler == "thr"
Bare == "cb"
Wrappers == Debouncers \cup {Throttler}
Waits == 1..MaxWait
\* The argument of a call is the `change` the observer hands on: a new object
\* at every event, here the number of the call.
Args == 1..MaxCalls
None == 0

\* Variant of max: the smaller of the two.
max_min(a, b) == IF a <= b THEN a ELSE b

max(a, b) == IF a >= b THEN a ELSE b

\* ----------------------------------------------------------------- Timer
\* Variant of Timer: the task does not sleep.
Timer_nosleep(ts, timeout, callback) ==
    Append(ts, [timeout |-> 0, start |-> now, asleep |-> 0, callback |-> callback,
                task |-> "pending", ncancel |-> 0, tcancel |-> 0])

\* Timer.__init__: ensure_future creates the task of _job, which has not run
\* a step yet (asleep = 0); `start` is the time of construction.  callback.fn
\* is the target, callback.args the arguments of the call whose frame the
\* closure call_it was made in.  ncancel and tcancel log the cancel() calls
\* made on the Timer and the time of the first (0 = none).
Timer(ts, timeout, callback) ==
    Append(ts, [timeout |-> timeout, start |-> now, asleep |-> 0, callback |-> callback,
                task |-> "pending", ncancel |-> 0, tcancel |-> 0])

\* Variant of cancel: the task is left to run.
cancel_noop(ts, id) ==
    [ts EXCEPT ![id].ncancel = @ + 1,
               ![id].tcancel = IF @ = 0 THEN now ELSE @]

\* Variant of cancel: a finished task is marked cancelled too.
cancel_always(ts, id) ==
    [ts EXCEPT ![id].task = "cancelled", ![id].ncancel = @ + 1,
               ![id].tcancel = IF @ = 0 THEN now ELSE @]

\* Timer.cancel: Task.cancel() stops a task that has not finished, whether it
\* has started its sleep or not; on a finished or already cancelled task it
\* does nothing.
cancel(ts, id) ==
    [ts EXCEPT ![id].task = IF @ = "pending" THEN "cancelled" ELSE @,
               ![id].ncancel = @ + 1,
               ![id].tcancel = IF @ = 0 THEN now ELSE @]

\* The earliest time at which `await asyncio.sleep(self._timeout)` of
\* Timer._job returns, for a task that reached it at time t.asleep.
Due(t) == t.asleep + t.timeout

Ids == 1..Len(timers)
Pending(fn) == {id \in Ids : timers[id].callback.fn = fn /\ timers[id].task = "pending"}

\* -------------------------------------------------------------- debounce
\* Variant of debounced: the previous Timer is not cancelled.
debounced_nocancel(d, a) ==
    /\ pc = "idle"
    /\ Len(calls) < MaxCalls
    /\ LET id == Len(timers) + 1
       IN /\ timers' = Timer(timers, wait[d], [fn |-> d, args |-> a])
          /\ timer' = [timer EXCEPT ![d] = id]
          /\ calls' = Append(calls, [fn |-> d, time |-> now, args |-> a, timer |-> id])
    /\ UNCHANGED <<now, wait, time_of_last_call, scheduled, new_args, pc, raised, execs>>

\* Variant of debounced: `timer` is one variable shared by every wrapper.
debounced_shared(d, a) ==
    /\ pc = "idle"
    /\ Len(calls) < MaxCalls
    /\ LET id == Len(timers) + 1
           held == {timer[e] : e \in Debouncers} \ {0}
           ts == [k \in DOMAIN timers |->
                    IF k \in held THEN cancel(timers, k)[k] ELSE timers[k]]
       IN /\ timers' = Timer(ts, wait[d], [fn |-> d, args |-> a])
          /\ timer' = [e \in Debouncers |-> id]
          /\ calls' = Append(calls, [fn |-> d, time |-> now, args |-> a, timer |-> id])
    /\ UNCHANGED <<now, wait, time_of_last_call, scheduled, new_args, pc, raised, execs>>

\* debounce.decorator.debounced(*args)
debounced(d, a) ==
    /\ pc = "idle"
    /\ Len(calls) < MaxCalls
    /\ LET id == Len(timers) + 1
           ts == IF timer[d] # 0 THEN cancel(timers, timer[d]) ELSE timers
       IN /\ timers' = Timer(ts, wait[d], [fn |-> d, args |-> a])
          /\ timer' = [timer EXCEPT ![d] = id]
          /\ calls' = Append(calls, [fn |-> d, time |-> now, args |-> a, timer |-> id])
    /\ UNCHANGED <<now, wait, time_of_last_call, scheduled, new_args, pc, raised, execs>>

\* -------------------------------------------------------------- throttle
\* Variant of throttled: a wrapper that has never executed counts no time as elapsed.
throttled_fresh(a) ==
    /\ Len(calls) < MaxCalls
    /\ LET time_since_last_call ==
               IF time_of_last_call = 0 THEN 0 ELSE now - time_of_last_call
           new_wait == max(0, wait[Throttler] - time_since_last_call)
           id == Len(timers) + 1
       IN /\ new_args' = a
          /\ IF ~scheduled
             THEN /\ timers' = Timer(timers, new_wait, [fn |-> Throttler, args |-> a])
                  /\ scheduled' = TRUE
                  /\ calls' = Append(calls, [fn |-> Throttler, time |-> now,
                                             args |-> a, timer |-> id])
             ELSE /\ UNCHANGED <<timers, scheduled>>
                  /\ calls' = Append(calls, [fn |-> Throttler, time |-> now,
                                             args |-> a, timer |-> 0])
    /\ UNCHANGED <<now, timer, wait, time_of_last_call, pc, raised, execs>>

\* Variant of throttled: every call schedules a Timer, scheduled or not.
throttled_always(a) ==
    /\ Len(calls) < MaxCalls
    /\ LET time_since_last_call == now - time_of_last_call
           new_wait == max(0, wait[Throttler] - time_since_last_call)
           id == Len(timers) + 1
       IN /\ new_args' = a
          /\ IF TRUE
             THEN /\ timers' = Timer(timers, new_wait, [fn |-> Throttler, args |-> a])
                  /\ scheduled' = TRUE
                  /\ calls' = Append(calls, [fn |-> Throttler, time |-> now,
                                             args |-> a, timer |-> id])
             ELSE /\ UNCHANGED <<timers, scheduled>>
                  /\ calls' = Append(calls, [fn |-> Throttler, time |-> now,
                                             args |-> a, timer |-> 0])
    /\ UNCHANGED <<now, timer, wait, time_of_last_call, pc, raised, execs>>

\* Variant of throttled: the call that schedules a Timer does not set `scheduled`.
throttled_noflag(a) ==
    /\ Len(calls) < MaxCalls
    /\ LET time_since_last_call == now - time_of_last_call
           new_wait == max(0, wait[Throttler] - time_since_last_call)
           id == Len(timers) + 1
       IN /\ new_args' = a
          /\ IF ~scheduled
             THEN /\ timers' = Timer(timers, new_wait, [fn |-> Throttler, args |-> a])
                  /\ scheduled' = scheduled
                  /\ calls' = Append(calls, [fn |-> Throttler, time |-> now,
                                             args |-> a, timer |-> id])
             ELSE /\ UNCHANGED <<timers, scheduled>>
                  /\ calls' = Append(calls, [fn |-> Throttler, time |-> now,
                                             args |-> a, timer |-> 0])
    /\ UNCHANGED <<now, timer, wait, time_of_last_call, pc, raised, execs>>

\* Variant of throttled: the Timer always sleeps a full wait.
throttled_fullwait(a) ==
    /\ Len(calls) < MaxCalls
    /\ LET time_since_last_call == now - time_of_last_call
           new_wait == wait[Throttler]
           id == Len(timers) + 1
       IN /\ new_args' = a
          /\ IF ~scheduled
             THEN /\ timers' = Timer(timers, new_wait, [fn |-> Throttler, args |-> a])
                  /\ scheduled' = TRUE
                  /\ calls' = Append(calls, [fn |-> Throttler, time |-> now,
                                             args |-> a, timer |-> id])
             ELSE /\ UNCHANGED <<timers, scheduled>>
                  /\ calls' = Append(calls, [fn |-> Throttler, time |-> now,
                                             args |-> a, timer |-> 0])
    /\ UNCHANGED <<now, timer, wait, time_of_last_call, pc, raised, execs>>

\* Variant of throttled: a call made while `scheduled` is true cancels the
\* pending Timer and schedules the fire anew.
throttled_restart(a) ==
    /\ Len(calls) < MaxCalls
    /\ LET time_since_last_call == now - time_of_last_call
           new_wait == max(0, wait[Throttler] - time_since_last_call)
           id == Len(timers) + 1
           ts == [k \in DOMAIN timers |->
                    IF timers[k].callback.fn = Throttler /\ timers[k].task = "pending"
                    THEN cancel(timers, k)[k] ELSE timers[k]]
       IN /\ new_args' = a
          /\ timers' = Timer(ts, new_wait, [fn |-> Throttler, args |-> a])
          /\ scheduled' = TRUE
          /\ calls' = Append(calls, [fn |-> Throttler, time |-> now,
                                     args |-> a, timer |-> id])
    /\ UNCHANGED <<now, timer, wait, time_of_last_call, pc, raised, execs>>

\* throttle.decorator.throttled(*args); it may be called from inside fn.
throttled(a) ==
    /\ Len(calls) < MaxCalls
    /\ LET time_since_last_call == now - time_of_last_call
           new_wait == max(0, wait[Throttler] - time_since_last_call)
           id == Len(timers) + 1
       IN /\ new_args' = a
          /\ IF ~scheduled
             THEN /\ timers' = Timer(timers, new_wait, [fn |-> Throttler, args |-> a])
                  /\ scheduled' = TRUE
                  /\ calls' = Append(calls, [fn |-> Throttler, time |-> now,
                                             args |-> a, timer |-> id])
             ELSE /\ UNCHANGED <<timers, scheduled>>
                  /\ calls' = Append(calls, [fn |-> Throttler, time |-> now,
                                             args |-> a, timer |-> 0])
    /\ UNCHANGED <<now, timer, wait, time_of_last_call, pc, raised, execs>>

\* ------------------------------------------------------------ bare Timer
\* Timer(timeout, callback) built directly by a client, which keeps the handle.
NewTimer(timeout) ==
    /\ pc = "idle"
    /\ Len(calls) < MaxCalls
    /\ \A k \in 1..Len(calls) : calls[k].fn # Bare
    /\ timers' = Timer(timers, timeout, [fn |-> Bare, args |-> None])
    /\ calls' = Append(calls, [fn |-> Bare, time |-> now, args |-> None,
                               timer |-> Len(timers) + 1])
    /\ UNCHANGED <<now, timer, wait, time_of_last_call, scheduled, new_args,
                   pc, raised, execs>>

\* The cancel() calls made so far on bare Timers among the first n Timers.
RECURSIVE Cancels(_)
Cancels(n) ==
    IF n = 0 THEN 0
    ELSE Cancels(n - 1) + IF timers[n].callback.fn = Bare THEN timers[n].ncancel ELSE 0

\* The client calls cancel() on its handle, in whatever state the Timer is.
CancelTimer(id) ==
    /\ pc = "idle"
    /\ timers[id].callback.fn = Bare
    /\ Cancels(Len(timers)) < MaxCancel
    /\ timers' = cancel(timers, id)
    /\ UNCHANGED <<now, timer, wait, time_of_last_call, scheduled, new_args,
                   pc, raised, calls, execs>>

\* Variant of Job: a cancelled task runs its callback all the same.
Job_ignores_cancel(id) ==
    /\ pc = "idle"
    /\ timers[id].task \in {"pending", "cancelled"}
    /\ timers[id].asleep # 0
    /\ now >= Due(timers[id])
    /\ timers[id].callback.fn # Throttler
    /\ execs' = Append(execs, [fn |-> timers[id].callback.fn, time |-> now, end |-> now,
                               args |-> timers[id].callback.args, timer |-> id,
                               ncalls |-> Len(calls), ncancel |-> timers[id].ncancel])
    /\ timers' = [timers EXCEPT ![id].task = "done"]
    /\ UNCHANGED <<now, timer, wait, time_of_last_call, scheduled, new_args,
                   pc, raised, calls>>

\* Variant of ThrottleJob: fn gets the arguments of the call that scheduled the Timer.
ThrottleJob_closure_args(id) ==
    /\ pc = "idle"
    /\ timers[id].task = "pending"
    /\ timers[id].asleep # 0
    /\ now >= Due(timers[id])
    /\ timers[id].callback.fn = Throttler
    /\ time_of_last_call' = now
    /\ execs' = Append(execs, [fn |-> Throttler, time |-> now, end |-> 0,
                               args |-> timers[id].callback.args, timer |-> id,
                               ncalls |-> Len(calls), ncancel |-> timers[id].ncancel])
    /\ timers' = [timers EXCEPT ![id].task = "running"]
    /\ pc' = "fn"
    /\ UNCHANGED <<now, timer, wait, scheduled, new_args, raised, calls>>

\* Variant of ThrottleJob: the time of the execution is not recorded.
ThrottleJob_notime(id) ==
    /\ pc = "idle"
    /\ timers[id].task = "pending"
    /\ timers[id].asleep # 0
    /\ now >= Due(timers[id])
    /\ timers[id].callback.fn = Throttler
    /\ execs' = Append(execs, [fn |-> Throttler, time |-> now, end |-> 0,
                               args |-> new_args, timer |-> id,
                               ncalls |-> Len(calls), ncancel |-> timers[id].ncancel])
    /\ timers' = [timers EXCEPT ![id].task = "running"]
    /\ pc' = "fn"
    /\ UNCHANGED <<now, timer, wait, time_of_last_call, scheduled, new_args, raised, calls>>

\* ------------------------------------------------------------ Timer._job
\* The loop runs the first step of the task of Timer id: _job reaches
\* `await asyncio.sleep(self._timeout)` and the sleep starts now.
Sleep(id) ==
    /\ pc = "idle"
    /\ timers[id].task = "pending"
    /\ timers[id].asleep = 0
    /\ timers' = [timers EXCEPT ![id].asleep = now]
    /\ UNCHANGED <<now, timer, wait, time_of_last_call, scheduled, new_args,
                   pc, raised, calls, execs>>

\* The sleep of Timer id is over and the loop runs the rest of _job: the
\* callback starts, at the due time or later.
\* debounce: call_it runs fn(*args) with the arguments of its own call.
\* A bare Timer runs its callback.  The step logs when the callback starts;
\* the time it takes is time the clock moves before the loop's next step.
Job(id) ==
    /\ pc = "idle"
    /\ timers[id].task = "pending"
    /\ timers[id].asleep # 0
    /\ now >= Due(timers[id])
    /\ timers[id].callback.fn # Throttler
    /\ execs' = Append(execs, [fn |-> timers[id].callback.fn, time |-> now, end |-> now,
                               args |-> timers[id].callback.args, timer |-> id,
                               ncalls |-> Len(calls), ncancel |-> timers[id].ncancel])
    /\ timers' = [timers EXCEPT ![id].task = "done"]
    /\ UNCHANGED <<now, timer, wait, time_of_last_call, scheduled, new_args,
                   pc, raised, calls>>

\* throttle: call_it records the time and enters fn(*new_args).
ThrottleJob(id) ==
    /\ pc = "idle"
    /\ timers[id].task = "pending"
    /\ timers[id].asleep # 0
    /\ now >= Due(timers[id])
    /\ timers[id].callback.fn = Throttler
    /\ time_of_last_call' = now
    /\ execs' = Append(execs, [fn |-> Throttler, time |-> now, end |-> 0,
                               args |-> new_args, timer |-> id,
                               ncalls |-> Len(calls), ncancel |-> timers[id].ncancel])
    /\ timers' = [timers EXCEPT ![id].task = "running"]
    /\ pc' = "fn"
    /\ UNCHANGED <<now, timer, wait, scheduled, new_args, raised, calls>>

Running == CHOOSE id \in Ids : timers[id].task = "running"

\* fn returns: call_it clears `scheduled` and the task ends.
FnReturn ==
    /\ pc = "fn"
    /\ scheduled' = FALSE
    /\ timers' = [timers EXCEPT ![Running].task = "done"]
    /\ execs' = [execs EXCEPT ![Len(execs)].end = now]
    /\ pc' = "idle"
    /\ UNCHANGED <<now, timer, wait, time_of_last_call, new_args, raised, calls>>

\* fn raises: the exception leaves call_it before `scheduled = False`
\* and ends the task.
FnRaise ==
    /\ pc = "fn"
    /\ raised' = TRUE
    /\ timers' = [timers EXCEPT ![Running].task = "done"]
    /\ execs' = [execs EXCEPT ![Len(execs)].end = now]
    /\ pc' = "idle"
    /\ UNCHANGED <<now, timer, wait, time_of_last_call, scheduled, new_args, calls>>

\* ----------------------------------------------------------------- clock
Elapsed == now - Epoch

\* time() reads one tick more.  The clock asks nothing of the program: it
\* moves while fn runs and while tasks wait for the loop.
Advance(limit) ==
    /\ Elapsed < limit
    /\ now' = now + 1
    /\ UNCHANGED <<timers, timer, wait, time_of_last_call, scheduled, new_args,
                   pc, raised, calls, execs>>

Tick == Advance(MaxTime)

\* -------------------------------------------------------- specifications
Init ==
    /\ now = Epoch
    /\ timers = <<>>
    /\ timer = [d \in Debouncers |-> 0]
    /\ wait \in [Wrappers -> Waits \cup {MeanWait, SnapshotWait}]
    /\ time_of_last_call = 0
    /\ scheduled = FALSE
    /\ new_args = None
    /\ pc = "idle"
    /\ raised = FALSE
    /\ calls = <<>>
    /\ execs = <<>>

\* A debounced wrapper on its own: in one run either the one with the
\* notebook's wait is called or the one with another wait.
InitDebounce ==
    /\ Init
    /\ wait["deb1"] = MeanWait
    /\ wait["deb2"] = MaxWait
    /\ wait[Throttler] = 1

NextDebounce ==
    \/ \E d \in Debouncers, a \in Args :
          /\ a = Len(calls) + 1
          /\ \A k \in 1..Len(calls) : calls[k].fn = d
          /\ debounced(d, a)
    \/ \E id \in Ids : Sleep(id)
    \/ \E id \in Ids : Job(id)
    \/ Tick

SpecDebounce == InitDebounce /\ [][NextDebounce]_vars

\* Two debounced wrappers called in any interleaving.
InitPair ==
    /\ Init
    /\ wait["deb1"] = 1
    /\ wait["deb2"] = MaxWait
    /\ wait[Throttler] = 1

NextPair ==
    \/ \E d \in Debouncers, a \in Args : a = Len(calls) + 1 /\ debounced(d, a)
    \/ \E id \in Ids : Sleep(id)
    \/ \E id \in Ids : Job(id)
    \/ Advance(PairEnd)

SpecPair == InitPair /\ [][NextPair]_vars

\* One throttled wrapper.
InitThrottle == Init /\ wait[Throttler] = MaxWait /\ \A d \in Debouncers : wait[d] = 1

NextThrottle ==
    \/ \E a \in Args : a = Len(calls) + 1 /\ throttled(a)
    \/ \E id \in Ids : Sleep(id)
    \/ \E id \in Ids : ThrottleJob(id)
    \/ FnReturn
    \/ FnRaise
    \/ Advance(ThrottleEnd)

SpecThrottle == InitThrottle /\ [][NextThrottle]_vars

\* The throttled show_snapshot, wait = 100 ms, called at most once at each of
\* 0, 10 and 300 ms after the start (ticks of 10 ms), on a loop that keeps no
\* task waiting, and runs no fn, for more than MaxLate ticks.
SnapshotCalls == {0, 1, 30}

\* How long Timer id has been waiting for the loop: for its first step, for
\* the step after its sleep, or for fn to return.
Late(id) ==
    LET t == timers[id]
    IN IF t.task = "pending" /\ t.asleep = 0 THEN now - t.start
       ELSE IF t.task = "pending" THEN max(0, now - Due(t))
       ELSE IF t.task = "running" THEN now - time_of_last_call
       ELSE 0

InitSnapshot ==
    /\ Init
    /\ wait[Throttler] = SnapshotWait
    /\ \A d \in Debouncers : wait[d] = 1

NextSnapshot ==
    \/ \E a \in Args :
          /\ a = Len(calls) + 1
          /\ Elapsed \in SnapshotCalls
          /\ \A k \in 1..Len(calls) : calls[k].time # now
          /\ throttled(a)
    \/ \E id \in Ids : Sleep(id)
    \/ \E id \in Ids : ThrottleJob(id)
    \/ FnReturn
    \/ FnRaise
    \/ (\A id \in Ids : Late(id) < MaxLate) /\ Advance(ScenarioEnd)

SpecSnapshot == InitSnapshot /\ [][NextSnapshot]_vars

\* A bare Timer and its client, beside one debounced wrapper that is called
\* without arguments, as show_mean() is.
InitTimer == Init /\ \A w \in Wrappers : wait[w] = MaxWait

NextTimer ==
    \/ \E timeout \in 0..MaxWait : NewTimer(timeout)
    \/ debounced("deb1", None)
    \/ \E id \in Ids : CancelTimer(id)
    \/ \E id \in Ids : Sleep(id)
    \/ \E id \in Ids : Job(id)
    \/ Advance(TimerEnd)

SpecTimer == InitTimer /\ [][NextTimer]_vars

\* ------------------------------------------------------- reading the logs
CallIds == 1..Len(calls)
ExecIds == 1..Len(execs)
\* The invocations made by Timer id.
ExecsOf(id) == {k \in ExecIds : execs[k].timer = id}
\* Calls i <= j of one wrapper, and that wrapper's calls from i to j.
SameFn(i, j) == {k \in i..j : calls[k].fn = calls[i].fn}
\* The wrapper's next call after call k, or 0.
Succ(k) ==
    LET later == {m \in CallIds : m > k /\ calls[m].fn = calls[k].fn}
    IN IF later = {} THEN 0 ELSE CHOOSE m \in later : \A n \in later : m <= n
\* Calls i..j of one wrapper form an unbroken burst: each arrives less than
\* wait after the one before.
Burst(i, j) ==
    /\ i <= j
    /\ calls[j].fn = calls[i].fn
    /\ \A k \in SameFn(i, j) \ {j} :
          calls[Succ(k)].time - calls[k].time < wait[calls[i].fn]
\* No call of the same wrapper arrives, or can still arrive, within wait of call j.
Quiet(j) ==
    /\ now > calls[j].time + wait[calls[j].fn]
    /\ Succ(j) # 0 => calls[Succ(j)].time - calls[j].time > wait[calls[j].fn]
\* Call j is executed exactly once, wait after it, with its own arguments.
ExecutedOnce(j) ==
    /\ Cardinality(ExecsOf(calls[j].timer)) = 1
    /\ \A k \in ExecsOf(calls[j].timer) :
          /\ execs[k].fn = calls[j].fn
          /\ execs[k].time = calls[j].time + wait[calls[j].fn]
          /\ execs[k].args = calls[j].args

\* The loop has kept Timer id waiting at no point so far: its task started
\* its sleep in the instant of construction, and the callback started, or a
\* cancel() stopped the task, no later than the instant the sleep was over.
Prompt(id) ==
    LET t == timers[id]
    IN /\ t.asleep # 0 => t.asleep = t.start
       /\ (t.task = "pending" /\ t.asleep = 0) => now = t.start
       /\ t.task = "pending" => now <= t.start + t.timeout
       /\ t.task = "cancelled" => t.tcancel <= t.start + t.timeout
       /\ \A k \in ExecsOf(id) : execs[k].time = t.start + t.timeout
\* Call j is executed at most once, no earlier than wait after it, with its
\* own arguments, and nothing but a later call of its wrapper stops its Timer.
ExecutedAtMostOnce(j) ==
    /\ Cardinality(ExecsOf(calls[j].timer)) <= 1
    /\ \A k \in ExecsOf(calls[j].timer) :
          /\ execs[k].fn = calls[j].fn
          /\ execs[k].time >= calls[j].time + wait[calls[j].fn]
          /\ execs[k].args = calls[j].args
    /\ timers[calls[j].timer].ncancel = IF Succ(j) = 0 THEN 0 ELSE 1
    /\ timers[calls[j].timer].task = "cancelled" => ExecsOf(calls[j].timer) = {}
    /\ timers[calls[j].timer].task = "done" => ExecsOf(calls[j].timer) # {}

\* C1 as claimed: in a burst of calls of one debounced wrapper, each less than
\* wait after the one before, no call but the last is ever executed; and once
\* no further call can fall within wait of the last, the whole burst has
\* produced exactly one execution, at (time of the last call) + wait, with the
\* arguments of the last call.
C1_DebounceCollapse ==
    \A i, j \in CallIds :
        (calls[i].fn \in Debouncers /\ Burst(i, j)) =>
            /\ \A k \in SameFn(i, j) \ {j} : ExecsOf(calls[k].timer) = {}
            /\ Quiet(j) =>
                  /\ ExecutedOnce(j)
                  /\ Cardinality(UNION {ExecsOf(calls[k].timer) : k \in SameFn(i, j)}) = 1

\* C1 - Debounce collapse, amended: in a burst of calls of one debounced
\* wrapper, each less than wait after the one before, no call but the last is
\* ever executed, and the last is executed at most once, no earlier than (time
\* of the last call) + wait, with the arguments of the last call; only a later
\* call of the wrapper, made before the Timer has fired, stops that execution.
\* When the loop has not kept the last Timer waiting and no further call can
\* fall within wait of the last, the burst has produced exactly one execution,
\* at (time of the last call) + wait.
C1_CollapseNoEarlier ==
    \A i, j \in CallIds :
        (calls[i].fn \in Debouncers /\ Burst(i, j)) =>
            /\ \A k \in SameFn(i, j) \ {j} : ExecsOf(calls[k].timer) = {}
            /\ ExecutedAtMostOnce(j)
            /\ (Quiet(j) /\ Prompt(calls[j].timer)) =>
                  /\ ExecutedOnce(j)
                  /\ Cardinality(UNION {ExecsOf(calls[k].timer) : k \in SameFn(i, j)}) = 1

\* Calls at 0, 50 and 100 ms with wait = 200 ms, in ticks of 50 ms: one
\* execution, at 300 ms, with the arguments of the call at 100 ms.
C1_Witness ==
    \E d \in Debouncers :
        /\ wait[d] = MeanWait
        /\ Len(calls) = 3
        /\ \A k \in CallIds : calls[k].fn = d /\ calls[k].time = Epoch + k - 1
        /\ calls[3].args # calls[2].args
        /\ now > Epoch + 6
        /\ Len(execs) = 1
        /\ execs[1].time = Epoch + 6
        /\ execs[1].args = calls[3].args

\* C2 as claimed: a call of a debounced wrapper that no call of the same
\* wrapper follows within wait is executed exactly once, wait after it, with
\* its own arguments; of two successive calls more than wait apart the first
\* has been executed before the second arrives.
C2_DebounceIsolation ==
    \A j \in CallIds :
        calls[j].fn \in Debouncers =>
            /\ Quiet(j) => ExecutedOnce(j)
            /\ (Succ(j) # 0 /\ calls[Succ(j)].time - calls[j].time > wait[calls[j].fn]) =>
                  \E k \in ExecsOf(calls[j].timer) : execs[k].ncalls < Succ(j)

\* C2 - Debounce isolation, amended: every call of a debounced wrapper is
\* executed at most once, no earlier than wait after it, with its own
\* arguments, and only the wrapper's next call, made before the Timer has
\* fired, stops that execution.  When the loop has not kept the call's Timer
\* waiting, a call that no call of the same wrapper follows within wait is
\* executed exactly once, wait after it, and before a next call arrives.
C2_IsolationNoEarlier ==
    \A j \in CallIds :
        calls[j].fn \in Debouncers =>
            /\ ExecutedAtMostOnce(j)
            /\ Prompt(calls[j].timer) =>
                  /\ Quiet(j) => ExecutedOnce(j)
                  /\ (Succ(j) # 0 /\ calls[Succ(j)].time - calls[j].time > wait[calls[j].fn]) =>
                        \E k \in ExecsOf(calls[j].timer) : execs[k].ncalls < Succ(j)

\* Calls at 0 and 300 ms with wait = 200 ms, in ticks of 100 ms: executions
\* at 200 ms and 500 ms, each with its own call's arguments.
C2_Witness ==
    \E d \in Debouncers :
        /\ wait[d] = 2
        /\ Len(calls) = 2
        /\ \A k \in CallIds : calls[k].fn = d
        /\ calls[1].time = Epoch /\ calls[2].time = Epoch + 3
        /\ calls[1].args # calls[2].args
        /\ Len(execs) = 2
        /\ execs[1].time = Epoch + 2 /\ execs[1].args = calls[1].args
        /\ execs[2].time = Epoch + 5 /\ execs[2].args = calls[2].args

\* C7 - Debouncer single pending timer: a debounced wrapper never has more
\* than one pending Timer, and the pending one is the one `timer` refers to.
C7_SinglePendingTimer ==
    \A d \in Debouncers :
        /\ Cardinality(Pending(d)) <= 1
        /\ \A id \in Pending(d) : timer[d] = id

\* A call has cancelled the pending Timer of the call before and scheduled its own.
C7_Witness ==
    \E d \in Debouncers :
        /\ Pending(d) # {}
        /\ \E id \in Ids : timers[id].callback.fn = d /\ timers[id].task = "cancelled"

\* C10 - Independence: a call of one debounced wrapper, and the firing of one
\* of its Timers, leave the other wrapper's `timer` and every Timer of the
\* other wrapper (pending or not, with the arguments it holds) as they were;
\* the call executes nothing and the firing executes nothing of the other.
C10_Frame ==
    \A d \in Debouncers :
        LET called == Len(calls') = Len(calls) + 1 /\ calls'[Len(calls')].fn = d
            fired == Len(execs') = Len(execs) + 1 /\ execs'[Len(execs')].fn = d
        IN /\ called => execs' = execs /\ now' = now
           /\ fired => calls' = calls /\ now' = now
           /\ (called \/ fired) =>
                 \A e \in Debouncers \ {d} :
                    /\ timer'[e] = timer[e]
                    /\ \A id \in Ids :
                          timers[id].callback.fn = e => timers'[id] = timers[id]

\* When Timer id left the pending state (now, if it has not): the start of
\* its callback or the cancel() that stopped it.
Resolved(id) ==
    IF timers[id].task = "pending" \/ ExecsOf(id) = {}
    THEN IF timers[id].task = "cancelled" THEN timers[id].tcancel ELSE now
    ELSE execs[CHOOSE k \in ExecsOf(id) : TRUE].time

\* From the instant its delay was over until it was resolved, Timer id waited
\* for the loop while an execution of the other wrapper was under way: that
\* execution started no later than the delay was over, and the loop ran no
\* other step (call, task start, callback) before the Timer was resolved.
HeldByOther(id) ==
    LET t == timers[id]
        x == Resolved(id)
    IN \E k \in ExecIds :
          /\ execs[k].fn \in Debouncers \ {t.callback.fn}
          /\ execs[k].time <= t.start + t.timeout
          /\ \A c \in CallIds : c > execs[k].ncalls => calls[c].time >= x
          /\ \A m \in ExecIds : m > k => execs[m].time >= x
          /\ \A i \in Ids : timers[i].asleep \notin (execs[k].time + 1)..(x - 1)

\* Nothing but the other wrapper's executions has kept Timer id waiting: its
\* task started its sleep in the instant of construction (or the instant is
\* not over, or a call cancelled it in that instant), and where it was
\* resolved after its delay was over, the other wrapper's fn held the loop.
AloneButForOther(id) ==
    LET t == timers[id]
    IN /\ t.asleep # 0 => t.asleep = t.start
       /\ t.asleep = 0 => Resolved(id) = t.start
       /\ Resolved(id) > t.start + t.timeout => HeldByOther(id)

\* The executions a debounced wrapper has when it runs alone on its loop: a
\* call followed by the wrapper's next call within wait is never executed, and
\* a call not so followed, once its Timer is no longer pending, has been
\* executed exactly once, with its own arguments.
AsIfAlone ==
    \A j \in CallIds :
        (calls[j].fn \in Debouncers /\ AloneButForOther(calls[j].timer)) =>
            /\ (Succ(j) # 0 /\ calls[Succ(j)].time - calls[j].time < wait[calls[j].fn]) =>
                  ExecsOf(calls[j].timer) = {}
            /\ (Quiet(j) /\ timers[calls[j].timer].task # "pending") =>
                  /\ Cardinality(ExecsOf(calls[j].timer)) = 1
                  /\ \A k \in ExecsOf(calls[j].timer) : execs[k].args = calls[j].args

\* C10 as claimed: every step keeps the frame above, and where nothing but
\* the other wrapper's executions has kept a wrapper's Timers waiting, the
\* wrapper's executions are the same as if it ran alone.
C10_SameAsAlone == [][C10_Frame /\ AsIfAlone']_vars

\* Every execution of a debounced wrapper is of one of its own calls: at most
\* one for each call, no earlier than the wrapper's wait after it, with its
\* own arguments; and only the wrapper's own next call cancels a Timer of it.
OwnExecutions ==
    \A j \in CallIds : calls[j].fn \in Debouncers => ExecutedAtMostOnce(j)

\* C10 - Independence, amended: every step keeps the frame above, and every
\* execution of a wrapper is of one of its own calls, with that call's
\* arguments and no earlier than the wrapper's wait after it, its Timers
\* cancelled by nothing but its own next call.  (Not: the executions are the
\* same as if the wrapper ran alone.  The wrappers share the loop, so a Timer
\* of one waits while the other's fn runs, and the wrapper's next call, made
\* meanwhile, cancels it.)
C10_Independence == [][C10_Frame /\ OwnExecutions']_vars

\* A Timer of one wrapper was due while an execution of the other was under
\* way, and the wrapper's next call, more than wait after the call before,
\* cancelled it: that call is never executed.
C10_Witness ==
    \E j \in CallIds :
        /\ calls[j].fn \in Debouncers
        /\ Succ(j) # 0
        /\ calls[Succ(j)].time - calls[j].time > wait[calls[j].fn]
        /\ timers[calls[j].timer].task = "cancelled"
        /\ timers[calls[j].timer].asleep = timers[calls[j].timer].start
        /\ HeldByOther(calls[j].timer)

\* The last call of fn's wrapper among the first n calls, or 0.
LastCall(fn, n) ==
    LET before == {m \in 1..n : calls[m].fn = fn}
    IN IF before = {} THEN 0 ELSE CHOOSE m \in before : \A k \in before : k <= m
\* The first call of fn's wrapper, or 0.
FirstCall(fn) ==
    LET all == {m \in CallIds : calls[m].fn = fn}
    IN IF all = {} THEN 0 ELSE CHOOSE m \in all : \A k \in all : m <= k
ThrottleExecs == {k \in ExecIds : execs[k].fn = Throttler}

\* C3 - Throttle rate limit: any two executions of the throttled fn start at
\* least wait apart.
C3_ThrottleRateLimit ==
    \A k, m \in ThrottleExecs :
        k < m => execs[m].time - execs[k].time >= wait[Throttler]

\* Two executions exactly wait apart, the second scheduled by a call that
\* arrived less than wait after the first execution.
C3_Witness ==
    /\ wait[Throttler] = 2
    /\ Len(execs) = 2
    /\ execs[2].time - execs[1].time = 2
    /\ timers[execs[2].timer].timeout = 1

\* C4 - Throttle latest arguments: every execution of the throttled fn gets
\* the arguments of the most recent call of the wrapper made before it.
C4_LatestArgs ==
    \A k \in ThrottleExecs :
        /\ LastCall(Throttler, execs[k].ncalls) # 0
        /\ execs[k].args = calls[LastCall(Throttler, execs[k].ncalls)].args

\* An execution whose arguments are not those of the call that scheduled its Timer.
C4_Witness ==
    \E k \in ThrottleExecs :
        /\ execs[k].args # timers[execs[k].timer].callback.args
        /\ timers[execs[k].timer].timeout > 0

\* C5 as claimed: the first call of a fresh throttled wrapper schedules its
\* Timer a full wait ahead, and the first execution is wait after that call.
C5_FirstCallWaits ==
    LET c == FirstCall(Throttler)
    IN c # 0 =>
          /\ timers[calls[c].timer].timeout = wait[Throttler]
          /\ \A k \in ExecsOf(calls[c].timer) :
                execs[k].time = calls[c].time + wait[Throttler]

\* C5 - Throttle first call, amended: time_of_last_call starts at 0 and time()
\* is the time since the epoch, so the first call of a fresh wrapper computes
\* remaining = max(0, wait - time()) = 0: its Timer has delay 0, and the first
\* execution is as soon as the loop runs the Timer: at the clock reading of
\* the first call when the loop has not kept the Timer waiting.
C5_FirstCallImmediate ==
    LET c == FirstCall(Throttler)
    IN c # 0 =>
          /\ calls[c].timer # 0
          /\ timers[calls[c].timer].timeout = max(0, wait[Throttler] - calls[c].time)
          /\ timers[calls[c].timer].timeout = 0
          /\ \A k \in ExecsOf(calls[c].timer) : execs[k].time >= calls[c].time
          /\ Prompt(calls[c].timer) =>
                /\ \A k \in ExecsOf(calls[c].timer) : execs[k].time = calls[c].time
                /\ now > calls[c].time => ExecsOf(calls[c].timer) # {}

\* The first call has been executed, at the instant it was made.
C5_Witness ==
    /\ FirstCall(Throttler) = 1
    /\ Len(execs) >= 1
    /\ execs[1].timer = calls[1].timer
    /\ execs[1].time = calls[1].time
    /\ now > calls[1].time

\* The scenario of C6: calls at 0, 10 and 300 ms, none of whose executions raised.
SnapshotRun ==
    /\ Len(calls) = 3
    /\ calls[1].time = Epoch
    /\ calls[2].time = Epoch + 1
    /\ calls[3].time = Epoch + 30

\* C6 as claimed: exactly two executions, at 100 ms with the arguments of the
\* call at 10 ms and at 400 ms with the arguments of the call at 300 ms.
C6_TwoExecutions ==
    (SnapshotRun /\ ~raised /\ Elapsed > 40) =>
        /\ Len(execs) = 2
        /\ execs[1].time = Epoch + 10 /\ execs[1].args = calls[2].args
        /\ execs[2].time = Epoch + 40 /\ execs[2].args = calls[3].args

\* The loop has kept no Timer waiting so far and every invocation of fn took
\* no time.
PromptRun ==
    /\ \A id \in Ids : Prompt(id)
    /\ \A k \in ExecIds :
          IF execs[k].end = 0 THEN now = execs[k].time ELSE execs[k].end = execs[k].time

\* C6 - Throttle leading coalesce, amended: with wait = 100 ms and calls at 0,
\* 10 and 300 ms, on a loop that keeps no Timer waiting and with an fn that
\* takes no time, the executions are, in order, at 0 ms with the arguments of
\* the call at 0 ms, at 100 ms with those of the call at 10 ms and at 300 ms
\* with those of the call at 300 ms: all three when no invocation of fn
\* raises, and otherwise those up to the invocation that raised.  Each of the
\* three calls arrives with `scheduled` false and starts a schedule cycle of
\* its own.
C6_ThreeExecutions ==
    (SnapshotRun /\ PromptRun /\ Elapsed > 30) =>
        LET expected == <<[time |-> Epoch, args |-> calls[1].args],
                          [time |-> Epoch + 10, args |-> calls[2].args],
                          [time |-> Epoch + 30, args |-> calls[3].args]>>
        IN /\ Len(execs) \in 1..3
           /\ ~raised => Len(execs) = 3
           /\ raised => timers[execs[Len(execs)].timer].task = "done" /\ scheduled
           /\ \A k \in ExecIds :
                 /\ execs[k].time = expected[k].time
                 /\ execs[k].args = expected[k].args
                 /\ execs[k].timer = calls[k].timer
                 /\ calls[k].timer # 0

\* The three calls have been made and the three executions have happened.
C6_Witness ==
    /\ SnapshotRun
    /\ PromptRun
    /\ Elapsed > 40
    /\ ~raised
    /\ Len(execs) = 3
    /\ calls[1].args # calls[2].args

\* C8 as claimed: the callback of a Timer is invoked at most once and no
\* earlier than its delay after scheduling; a Timer that is no longer pending
\* has invoked it exactly once if no cancel() was made before the delay
\* elapsed, and never if one was.
C8_OneShotByDelay ==
    \A id \in Ids :
        LET t == timers[id]
        IN /\ Cardinality(ExecsOf(id)) <= 1
           /\ \A k \in ExecsOf(id) : execs[k].time >= t.start + t.timeout
           /\ (t.task # "pending" /\ (t.tcancel = 0 \/ t.tcancel > t.start + t.timeout)) =>
                 Cardinality(ExecsOf(id)) = 1
           /\ (t.tcancel # 0 /\ t.tcancel < t.start + t.timeout) => ExecsOf(id) = {}

\* C8 - Deferred Timer one-shot, amended: the callback of a Timer is invoked
\* at most once, no earlier than its delay after scheduling and never after a
\* cancel(); a Timer that is no longer pending has invoked it exactly once if
\* no cancel() was made before the invocation, and never if one was, also one
\* made after the delay had elapsed.  When the loop has not kept the Timer
\* waiting, the invocation is at the instant the delay elapses.
C8_OneShot ==
    \A id \in Ids :
        LET t == timers[id]
        IN /\ Cardinality(ExecsOf(id)) <= 1
           /\ \A k \in ExecsOf(id) :
                 /\ execs[k].time >= t.start + t.timeout
                 /\ execs[k].ncancel = 0
           /\ (t.task # "pending" /\ t.ncancel = 0) => Cardinality(ExecsOf(id)) = 1
           /\ (t.task # "pending" /\ ExecsOf(id) = {}) => t.task = "cancelled"
           /\ t.task = "cancelled" => ExecsOf(id) = {}
           /\ (Prompt(id) /\ t.ncancel = 0 /\ now > t.start + t.timeout) =>
                 /\ Cardinality(ExecsOf(id)) = 1
                 /\ \A k \in ExecsOf(id) : execs[k].time = t.start + t.timeout

\* One Timer has fired after its delay; another, kept waiting by the loop,
\* was cancelled after its delay had elapsed and has invoked nothing.
C8_Witness ==
    \E i, j \in Ids :
        /\ timers[i].timeout > 0 /\ ExecsOf(i) # {}
        /\ timers[j].timeout > 0 /\ timers[j].task = "cancelled" /\ ExecsOf(j) = {}
        /\ timers[j].tcancel > timers[j].start + timers[j].timeout

\* A cancel() of Timer id on a Timer that is not pending (it has fired or was
\* cancelled before).
LateCancel(id) ==
    /\ timers[id].task # "pending"
    /\ timers'[id].ncancel = timers[id].ncancel + 1

\* C9 - Idempotent cancellation: a cancel() on a Timer that has fired or was
\* already cancelled leaves the Timer as it was, invokes nothing and, made by
\* the Timer's client, changes nothing else; after it the Timer's callback
\* has still been invoked once if it had fired and never if it had not.  So a
\* debounced call made after its previous Timer fired does not execute the
\* earlier call again.
C9_Step ==
    \A id \in Ids :
        /\ LateCancel(id) =>
              /\ \A f \in {"timeout", "start", "asleep", "callback", "task"} :
                    timers'[id][f] = timers[id][f]
              /\ execs' = execs
              /\ \A other \in Ids \ {id} : timers'[other] = timers[other]
              /\ <<now, wait, time_of_last_call, scheduled, new_args, pc, raised>>' =
                 <<now, wait, time_of_last_call, scheduled, new_args, pc, raised>>
              /\ timers[id].callback.fn = Bare => <<timer, calls>>' = <<timer, calls>>
        /\ (timers[id].ncancel > 0 /\ timers[id].task # "pending") =>
              /\ timers'[id].task = timers[id].task
              /\ ExecsOf(id)' = ExecsOf(id)
              /\ Cardinality(ExecsOf(id)) = IF timers[id].task = "done" THEN 1 ELSE 0

\* C9 - Idempotent cancellation: every step keeps the condition above.
C9_IdempotentCancel == [][C9_Step]_vars

\* A bare Timer cancelled twice after it fired and a debounced call made after
\* its previous Timer fired; each fired Timer has one invocation.
C9_Witness ==
    \E i, j \in Ids :
        /\ timers[i].callback.fn = Bare
        /\ timers[i].task = "done" /\ timers[i].ncancel = 2
        /\ timers[j].callback.fn \in Debouncers
        /\ timers[j].task = "done" /\ timers[j].ncancel = 1
        /\ Cardinality(ExecsOf(i)) = 1 /\ Cardinality(ExecsOf(j)) = 1

\* This step is a call of the throttled wrapper made while `scheduled` is true.
CoalescedCall ==
    /\ scheduled
    /\ Len(calls') = Len(calls) + 1
    /\ calls'[Len(calls')].fn = Throttler

\* C11 - Throttle coalescing: a call of the throttled wrapper made while
\* `scheduled` is true stores its arguments as the latest and changes nothing
\* else: no Timer is constructed or cancelled, the pending Timer keeps its due
\* time, and scheduled and time_of_last_call stay as they were.
C11_Step ==
    CoalescedCall =>
        /\ new_args' = calls'[Len(calls')].args
        /\ timers' = timers
        /\ scheduled' = scheduled
        /\ time_of_last_call' = time_of_last_call
        /\ execs' = execs
        /\ <<now, pc, raised>>' = <<now, pc, raised>>

\* C11 - Throttle coalescing: every step keeps the condition above.
C11_Coalescing == [][C11_Step]_vars

\* A call arrived while a Timer with a delay was pending: the Timer is still
\* the only one and the stored arguments are those of the later call.
C11_Witness ==
    \E id \in Pending(Throttler) :
        /\ timers[id].timeout > 0
        /\ Len(timers) = 2
        /\ calls[Len(calls)].time > timers[id].start
        /\ new_args = calls[Len(calls)].args
        /\ new_args # timers[id].callback.args

\* C12 - Throttler single pending timer: the throttled wrapper never has more
\* than one pending Timer, and has none while `scheduled` is false.
C12_SinglePendingTimer ==
    /\ Cardinality(Pending(Throttler)) <= 1
    /\ ~scheduled => Pending(Throttler) = {}

\* A second schedule cycle: one Timer has fired and fn returned, a later call
\* scheduled the next Timer, and a further call found it pending.
C12_Witness ==
    /\ scheduled
    /\ Len(execs) = 1
    /\ Len(calls) = 3
    /\ Cardinality(Pending(Throttler)) = 1
    /\ Len(timers) = 2

\* The value of time_of_last_call when call k was made: the time of the last
\* execution of the throttled fn started before it, or the initial 0.
LastExecBefore(k) ==
    LET before == {e \in ThrottleExecs : execs[e].ncalls < k}
    IN IF before = {} THEN 0
       ELSE execs[CHOOSE e \in before : \A f \in before : f <= e].time

\* The delay a call that arrives with `scheduled` false gives its Timer, and
\* the order of the fire action.
DelayAndOrder ==
    /\ \A k \in CallIds :
          (calls[k].fn = Throttler /\ calls[k].timer # 0) =>
              LET t == timers[calls[k].timer]
                  elapsed == calls[k].time - LastExecBefore(k)
              IN /\ t.start = calls[k].time
                 /\ t.timeout = max(0, wait[Throttler] - elapsed)
                 /\ elapsed >= wait[Throttler] => t.timeout = 0
                 /\ elapsed < wait[Throttler] =>
                       t.start + t.timeout = LastExecBefore(k) + wait[Throttler]
    /\ time_of_last_call = LastExecBefore(Len(calls) + 1)
    /\ pc = "fn" => scheduled /\ time_of_last_call = execs[Len(execs)].time
    /\ (pc = "idle" /\ ~raised /\ Pending(Throttler) = {}) => ~scheduled

\* C13 as claimed: a call that arrives with `scheduled` false, elapsed after
\* the start of the previous execution, schedules the fire after max(0, wait -
\* elapsed): at once when elapsed >= wait, and otherwise exactly at
\* time_of_last_call + wait.  The fire action first sets time_of_last_call to
\* the fire time, then runs fn with `scheduled` still true, and sets
\* `scheduled` to false when fn has returned.
C13_FireExactlyWhenDue ==
    /\ DelayAndOrder
    /\ \A k \in CallIds :
          (calls[k].fn = Throttler /\ calls[k].timer # 0) =>
              \A e \in ExecsOf(calls[k].timer) :
                  execs[e].time = calls[k].time + timers[calls[k].timer].timeout

\* C13 - Throttle delay computation, amended: a call that arrives with
\* `scheduled` false, elapsed after the start of the previous execution, gives
\* its Timer the delay max(0, wait - elapsed): 0 when elapsed >= wait, and
\* otherwise wait - elapsed, which ends at time_of_last_call + wait.  The fire
\* is no earlier than the call plus that delay, and exactly then when the loop
\* has not kept the Timer waiting.  The fire action first sets
\* time_of_last_call to the fire time, then runs fn with `scheduled` still
\* true, and sets `scheduled` to false when fn has returned.
C13_DelayComputation ==
    /\ DelayAndOrder
    /\ \A k \in CallIds :
          (calls[k].fn = Throttler /\ calls[k].timer # 0) =>
              \A e \in ExecsOf(calls[k].timer) :
                  /\ execs[e].time >= calls[k].time + timers[calls[k].timer].timeout
                  /\ Prompt(calls[k].timer) =>
                        execs[e].time = calls[k].time + timers[calls[k].timer].timeout

\* A call made 0 < elapsed < wait after an execution: its Timer slept
\* wait - elapsed and fired at time_of_last_call + wait; fn is running.
C13_Witness ==
    /\ pc = "fn"
    /\ Len(execs) = 2
    /\ \E k \in CallIds :
          /\ calls[k].timer = execs[2].timer
          /\ calls[k].time > execs[1].time
          /\ timers[calls[k].timer].timeout > 0
          /\ timers[calls[k].timer].timeout < wait[Throttler]
          /\ execs[2].time = execs[1].time + wait[Throttler]

\* No fire action of the throttled wrapper is running and none is pending.
ThrottleQuiet == pc = "idle" /\ Pending(Throttler) = {}

\* C14 - Throttler reusable after failure, as claimed: whenever the fire
\* action is over (also one in which fn raised) and no Timer is pending, the
\* wrapper is back in IDLE with `scheduled` false, so that the next call
\* schedules a Timer.
C14_ReusableAfterFailure == ThrottleQuiet => ~scheduled

\* C15 - Throttle loses no call, as claimed, in the runs where fn has not
\* raised: when nothing is running or pending any more, every call made has
\* been followed by an execution of fn, with the arguments of the latest call
\* made before that execution.
C15_NoCallLost ==
    (ThrottleQuiet /\ ~raised) =>
        \A k \in CallIds :
            calls[k].fn = Throttler =>
                \E e \in ThrottleExecs :
                    /\ execs[e].ncalls >= k
                    /\ execs[e].args = calls[LastCall(Throttler, execs[e].ncalls)].args

\* The call that last set `scheduled` to true, or 0.
LastScheduling ==
    LET setting == {k \in CallIds : calls[k].fn = Throttler /\ calls[k].timer # 0}
    IN IF setting = {} THEN 0 ELSE CHOOSE k \in setting : \A m \in setting : m <= k

\* C16 as claimed: a call that sets `scheduled` to true is executed no later
\* than wait after it, whatever calls follow, and `scheduled` does not stay
\* true for longer than wait after that call.
C16_BoundedResponse ==
    /\ \A k \in CallIds :
          (calls[k].fn = Throttler /\ calls[k].timer # 0) =>
              /\ \A e \in ExecsOf(calls[k].timer) :
                    execs[e].time <= calls[k].time + wait[Throttler]
              /\ now > calls[k].time + wait[Throttler] =>
                    ExecsOf(calls[k].timer) # {}
    /\ scheduled => now <= calls[LastScheduling].time + wait[Throttler]

\* C16 - Throttle bounded response, amended: the Timer of a call that sets
\* `scheduled` to true has a delay of at most wait, and no call that follows
\* cancels it or builds another while it is pending; when the loop has not
\* kept it waiting, fn is executed no later than wait after that call.
\* `scheduled` stays true until fn has returned: no longer than wait after
\* the call that set it when the loop has kept no Timer waiting and fn has
\* taken no time, and for good once fn has raised.
C16_NoPostponement ==
    /\ \A k \in CallIds :
          (calls[k].fn = Throttler /\ calls[k].timer # 0) =>
              LET t == timers[calls[k].timer]
              IN /\ t.timeout <= wait[Throttler]
                 /\ t.start = calls[k].time
                 /\ t.ncancel = 0 /\ t.task # "cancelled"
                 /\ t.task = "pending" =>
                       \A m \in CallIds : (m > k /\ calls[m].fn = Throttler) => calls[m].timer = 0
                 /\ Prompt(calls[k].timer) =>
                       /\ \A e \in ExecsOf(calls[k].timer) :
                             execs[e].time <= calls[k].time + wait[Throttler]
                       /\ now > calls[k].time + wait[Throttler] =>
                             ExecsOf(calls[k].timer) # {}
    /\ (scheduled /\ PromptRun /\ ~raised) =>
          now <= calls[LastScheduling].time + wait[Throttler]
    /\ raised => scheduled

\* A Timer with a delay was pending while a further call arrived; it fired
\* when due, wait after the execution before, and fn has returned.
C16_Witness ==
    \E k \in CallIds :
        /\ calls[k].timer # 0
        /\ timers[calls[k].timer].timeout > 0
        /\ Prompt(calls[k].timer)
        /\ \E m \in CallIds :
              /\ m > k /\ calls[m].timer = 0
              /\ \E e \in ExecsOf(calls[k].timer) : execs[e].ncalls >= m
        /\ ~scheduled /\ ~raised

====
